---- MODULE Spec2Model ----
(***************************************************************************)
(* Model of recon_pipeline.py (class ReconPipeline): the run() driver, the *)
(* dependency check, the four scan phases and the report renderer.         *)
(*                                                                         *)
(* Text is modelled as a sequence of one-character strings, so that the    *)
(* code's substring tests, split(), strip() and endswith() are computed as *)
(* Python computes them.  One action models one phase method as a whole;   *)
(* the outcomes of the child processes it starts are inputs of the action. *)
(***************************************************************************)
EXTENDS Integers, Sequences, FiniteSets, TLC

----------------------------------------------------------------------------
(* Bounds of the model *)

\* at most this many injected invocation faults in one run
MaxFaults == 1
\* the report renderer is also exercised on lists this far over a limit
MaxOver == 15

----------------------------------------------------------------------------
(* Python str operations on sequences of characters *)

Cat(ss) ==
  LET RECURSIVE go(_, _)
      go(i, acc) == IF i > Len(ss) THEN acc ELSE go(i + 1, acc \o ss[i])
  IN go(1, <<>>)

\* s[i:i+len(p)] == p
MatchAt(p, s, i) ==
  /\ i + Len(p) - 1 <= Len(s)
  /\ \A k \in 1..Len(p) : s[i + k - 1] = p[k]

\* p in s
Contains(s, p) == \E i \in 1..(Len(s) - Len(p) + 1) : MatchAt(p, s, i)

\* s.startswith(p)
StartsWith(s, p) == MatchAt(p, s, 1)

\* s.endswith(p)
EndsWith(s, p) == Len(p) <= Len(s) /\ MatchAt(p, s, Len(s) - Len(p) + 1)

IsSpace(c) == c \in {" ", "\t", "\n", "\r"}

\* the k-th smallest element of a set of integers
Nth(S, k) == CHOOSE p \in S : Cardinality({q \in S : q < p}) = k - 1

\* s.split(sep) for a one-character separator: the pieces between separators
SplitOn(s, sep) ==
  LET cuts == {0} \cup {i \in 1..Len(s) : s[i] = sep} \cup {Len(s) + 1}
  IN [k \in 1..(Cardinality(cuts) - 1) |->
        SubSeq(s, Nth(cuts, k) + 1, Nth(cuts, k + 1) - 1)]

\* s.split(sep, 1)
SplitOnce(s, sep) ==
  IF \E i \in 1..Len(s) : s[i] = sep
  THEN LET i == CHOOSE j \in 1..Len(s) :
                  s[j] = sep /\ \A k \in 1..(j - 1) : s[k] # sep
       IN <<SubSeq(s, 1, i - 1), SubSeq(s, i + 1, Len(s))>>
  ELSE <<s>>

\* s.split(): runs of whitespace separate the tokens, no empty token
Split(s) ==
  LET starts == {i \in 1..Len(s) : ~IsSpace(s[i]) /\ (i = 1 \/ IsSpace(s[i - 1]))}
      ends   == {i \in 1..Len(s) : ~IsSpace(s[i]) /\ (i = Len(s) \/ IsSpace(s[i + 1]))}
  IN [k \in 1..Cardinality(starts) |-> SubSeq(s, Nth(starts, k), Nth(ends, k))]

\* s.strip()
Strip(s) ==
  IF \A i \in 1..Len(s) : IsSpace(s[i]) THEN <<>>
  ELSE LET a == CHOOSE i \in 1..Len(s) :
                  ~IsSpace(s[i]) /\ \A k \in 1..(i - 1) : IsSpace(s[k])
           b == CHOOSE i \in 1..Len(s) :
                  ~IsSpace(s[i]) /\ \A k \in (i + 1)..Len(s) : IsSpace(s[k])
       IN SubSeq(s, a, b)

\* s.rstrip('.')
RStripDot(s) ==
  IF \A i \in 1..Len(s) : s[i] = "." THEN <<>>
  ELSE LET b == CHOOSE i \in 1..Len(s) :
                  s[i] # "." /\ \A k \in (i + 1)..Len(s) : s[k] = "."
       IN SubSeq(s, 1, b)

UpperChars == <<"A","B","C","D","E","F","G","H","I","J","K","L","M",
                "N","O","P","Q","R","S","T","U","V","W","X","Y","Z">>
LowerChars == <<"a","b","c","d","e","f","g","h","i","j","k","l","m",
                "n","o","p","q","r","s","t","u","v","w","x","y","z">>

LowerOf == [c \in {UpperChars[k] : k \in 1..26} |->
              LowerChars[CHOOSE k \in 1..26 : UpperChars[k] = c]]

\* s.lower()
Lower(s) ==
  [i \in 1..Len(s) |-> IF s[i] \in DOMAIN LowerOf THEN LowerOf[s[i]] ELSE s[i]]

\* the characters of the model in code-point order
CodePoints == <<"\t", "\n", " ", "(", ")", "*", "+", "-", ".", "/",
                "0","1","2","3","4","5","6","7","8","9", ":", ";", "@">>
              \o UpperChars \o <<"_">> \o LowerChars

OrdOf == [c \in {CodePoints[i] : i \in 1..Len(CodePoints)} |->
            CHOOSE i \in 1..Len(CodePoints) : CodePoints[i] = c]

\* ord(c)
Ord(c) == OrdOf[c]

\* a < b for Python str
StrLess(a, b) ==
  \E i \in 1..Len(b) :
     /\ \A k \in 1..(i - 1) : k <= Len(a) /\ a[k] = b[k]
     /\ (i > Len(a) \/ Ord(a[i]) < Ord(b[i]))

\* a sort that puts the greatest name first
SortedDescending(S) ==
  LET RECURSIVE go(_, _)
      go(rest, acc) ==
        IF rest = {} THEN acc
        ELSE LET m == CHOOSE x \in rest : \A y \in rest \ {x} : StrLess(y, x)
             IN go(rest \ {m}, Append(acc, m))
  IN go(S, <<>>)

\* sorted(list(S)) for a set of str
Sorted(S) ==
  LET RECURSIVE go(_, _)
      go(rest, acc) ==
        IF rest = {} THEN acc
        ELSE LET m == CHOOSE x \in rest : \A y \in rest \ {x} : StrLess(x, y)
             IN go(rest \ {m}, Append(acc, m))
  IN go(S, <<>>)

\* xs[:n]
Take(xs, n) == SubSeq(xs, 1, IF Len(xs) < n THEN Len(xs) ELSE n)

Range(xs) == {xs[i] : i \in 1..Len(xs)}

----------------------------------------------------------------------------
(* Literals of the source *)

HasAddress ==
  <<"h","a","s"," ","a","d","d","r","e","s","s">>
HasIPv6 ==
  <<"h","a","s"," ","I","P","v","6">>
TransferFailed ==
  <<"T","r","a","n","s","f","e","r"," ","f","a","i","l","e","d">>
TabATab ==
  <<"\t","A","\t">>
SlashTcp ==
  <<"/","t","c","p">>
OpenWord ==
  <<"o","p","e","n">>
ServerColon ==
  <<"s","e","r","v","e","r",":">>
PlusSpace ==
  <<"+"," ">>
Osvdb ==
  <<"O","S","V","D","B">>
Vulnerab ==
  <<"v","u","l","n","e","r","a","b">>
HttpWord ==
  <<"h","t","t","p">>
Unknown ==
  <<"U","n","k","n","o","w","n">>
TimeoutMarker ==
  <<"T","i","m","e","o","u","t">>
ErrorMarker ==
  <<"E","r","r","n","o">>
TcpWord ==
  <<"t","c","p">>
SchemeSep ==
  <<":","/","/">>
HttpsWord ==
  <<"h","t","t","p","s">>

\* the labels of the dictionary probe
common_subs ==
  <<
     <<"w","w","w">>,
     <<"m","a","i","l">>,
     <<"f","t","p">>,
     <<"a","d","m","i","n">>,
     <<"a","p","i">>,
     <<"d","e","v">>,
     <<"s","t","a","g","i","n","g">>,
     <<"t","e","s","t">>,
     <<"p","o","r","t","a","l">>,
     <<"a","p","p">>,
     <<"m","o","b","i","l","e">>,
     <<"v","p","n">>,
     <<"b","l","o","g">>,
     <<"s","h","o","p">>,
     <<"c","d","n">>,
     <<"s","e","c","u","r","e">>,
     <<"l","o","g","i","n">>,
     <<"d","a","s","h","b","o","a","r","d">>,
     <<"b","e","t","a">>,
     <<"d","e","m","o">>
  >>

\* the tools check_dependencies looks for
Tools == {"nmap", "host", "dig", "nikto", "curl"}

\* nameservers[:3], subdomains[:5], subdomains[:10], web_services[:3], ct_data[:50]
NameserverCap == 3
PortScanCap == 5
ServiceCap == 10
VulnScanCap == 3
CtCap == 50

\* the truncation limits of the HTML report
SubdomainsShown == 30
PortsShown == 30
ServicesShown == 20
VulnsShown == 30

\* sys.exit(1) of the KeyboardInterrupt handler and of the Exception handler
InterruptExit == 1
ExceptionExit == 1
\* the exit status of a process whose run() returned
NormalExit == 0

\* the status codes of a live service
LiveCodes == { <<"2","0","0">>, <<"3","0","1">>, <<"3","0","2">>, <<"4","0","3">> }

----------------------------------------------------------------------------
(* Canned outputs of the external tools *)

HostV4Tail ==
  <<" ","h","a","s"," ","a","d","d","r","e","s","s"," ","1",".","1",".","1",
  ".","1","\n">>
HostV6Tail ==
  <<" ","h","a","s"," ","I","P","v","6"," ","a","d","d","r","e","s","s"," ",
  ":",":","1","\n">>
HostNxHead ==
  <<"H","o","s","t"," ">>
HostNxTail ==
  <<" ","n","o","t"," ","f","o","u","n","d",":"," ","3","(","N","X","D","O",
  "M","A","I","N",")","\n">>
DnsUnreachable ==
  <<";",";"," ","n","o"," ","s","e","r","v","e","r","s"," ","r","e","a","c",
  "h","e","d","\n">>
AxfrRefused ==
  <<";"," ","T","r","a","n","s","f","e","r"," ","f","a","i","l","e","d",".",
  "\n">>
RrA ==
  <<"\t","5","\t","I","N","\t","A","\t","1",".","1",".","1",".","1","\n">>
RrAAAA ==
  <<"\t","5","\t","I","N","\t","A","A","A","A","\t",":",":","1","\n">>
RrNS ==
  <<"\t","5","\t","I","N","\t","N","S","\t","n","s","1",".">>
LblNs1 ==
  <<"n","s","1",".">>
LblNs2 ==
  <<"n","s","2",".">>
LblNs3 ==
  <<"n","s","3",".">>
LblNs4 ==
  <<"n","s","4",".">>
LblIn ==
  <<"i","n",".">>
LblV6 ==
  <<"v","6",".">>
LblEvil ==
  <<"a">>
LblOther ==
  <<"o","u","t",".","o","r","g",".">>
LblCt ==
  <<"c","t",".">>
LblStar ==
  <<"*",".">>
LblWww ==
  <<"w","w","w",".">>
NmapHeader ==
  <<"N","m","a","p"," ","s","c","a","n"," ","r","e","p","o","r","t","\n",
  "P","O","R","T"," ","S","T","A","T","E"," ","S","E","R","V","I","C","E",
  "\n">>
NmapPorts ==
  <<"2","2","/","t","c","p"," ","o","p","e","n"," ","s","s","h","\n","8",
  "0","/","t","c","p"," ","o","p","e","n"," ","h","t","t","p","\n">>
NmapClosed ==
  <<"N","m","a","p"," ","s","c","a","n"," ","r","e","p","o","r","t","\n",
  "A","l","l"," ","1","0","0"," ","s","c","a","n","n","e","d"," ","p","o",
  "r","t","s"," ","a","r","e"," ","c","l","o","s","e","d","\n">>
Http200 ==
  <<"H","T","T","P","/","1",".","1"," ","2","0","0"," ","O","K","\n","S",
  "e","r","v","e","r",":"," ","n","g","i","n","x","\n">>
Http403 ==
  <<"H","T","T","P","/","1",".","1"," ","4","0","3"," ","F","o","r","b","i",
  "d","d","e","n","\n","s","e","r","v","e","r",":"," ","A","p","a","c","h",
  "e","\n">>
Http301 ==
  <<"H","T","T","P","/","1",".","1"," ","3","0","1"," ","M","o","v","e","d",
  "\n","L","o","c","a","t","i","o","n",":"," ","/","x","\n">>
Http302 ==
  <<"H","T","T","P","/","2"," ","3","0","2","\n","S","E","R","V","E","R",
  ":"," ","g","w","s","\n">>
Http404 ==
  <<"H","T","T","P","/","1",".","1"," ","4","0","4"," ","N","o","t"," ","F",
  "o","u","n","d","\n","S","e","r","v","e","r",":"," ","n","g","i","n","x",
  "\n">>
Http404Ref ==
  <<"H","T","T","P","/","1",".","1"," ","4","0","4"," ","N","o"," ","p","a",
  "g","e"," ","2","0","0","3","\n">>
Http500 ==
  <<"H","T","T","P","/","1",".","1"," ","5","0","0"," ","E","r","r","o","r",
  "\n">>
NiktoFound ==
  <<"-"," ","N","i","k","t","o"," ","v","2","\n","+"," ","S","e","r","v",
  "e","r",":"," ","n","g","i","n","x","\n","+"," ","O","S","V","D","B","-",
  "3","0","9","2",":"," ","/","a","d","m","i","n","/"," ","f","o","u","n",
  "d","\n","+"," ","/","x"," ","m","a","y"," ","b","e"," ","V","u","l","n",
  "e","r","a","b","l","e","\n">>
NiktoClean ==
  <<"-"," ","N","i","k","t","o"," ","v","2","\n","+"," ","S","e","r","v",
  "e","r",":"," ","n","g","i","n","x","\n","+"," ","0"," ","i","t","e","m",
  "s"," ","r","e","p","o","r","t","e","d","\n">>

\* a scan report whose reverse-DNS line carries a name with a slash in it
\* (RFC 2317 names have one), followed by the port table
NmapRdns ==
  <<"r","D","N","S"," ","r","e","c","o","r","d"," ","f","o","r"," ","1",".",
  "1",".","1",".","1",":"," ","8","0","/","t","c","p",".","o","p","e","n",
  ".","i","o","\n">>

\* a scan whose only line with "+ " inside it is the closing summary
NiktoSummary ==
  <<"-"," ","N","i","k","t","o"," ","v","2","\n","+"," ","S","e","r","v",
  "e","r",":"," ","n","g","i","n","x","\n","-"," ","0"," ","e","r","r","o",
  "r","s"," ","+"," ","0"," ","v","u","l","n","e","r","a","b","i","l","i",
  "t","i","e","s","\n">>

----------------------------------------------------------------------------
(* The environment of a run: what the network answers to each tool *)

Targets == { <<"x",".","i","o">> }

\* f"{sub}.{self.target}"
Fqdn(sub, t) == sub \o <<".">> \o t

\* the NS answer of dig +short: n name servers, one per line
NsAnswer(t, n) ==
  Cat([i \in 1..n |-> <<LblNs1, LblNs2, LblNs3, LblNs4>>[i] \o t \o <<".", "\n">>])

\* a zone transfer: the apex, one name inside the zone, one name outside it
\* whose text ends with the target, a foreign name, an AAAA and an NS record
ZoneAnswer(t) ==
  Cat(<< t \o <<".">> \o RrA,
         LblIn \o t \o <<".">> \o RrA,
         LblEvil \o t \o <<".">> \o RrA,
         LblOther \o RrA,
         LblV6 \o t \o <<".">> \o RrAAAA,
         t \o <<".">> \o RrNS \o t \o <<".", "\n">> >>)

\* the name_value fields of a certificate-transparency answer
CtAnswer(t) ==
  << LblStar \o t, LblWww \o t, LblCt \o t, <<>>, LblCt \o t \o <<" ">> >>

\* the DNS and certificate-transparency side of the network
DnsWorlds(t) ==
  { \* nothing answers: every probe of phase 1 fails
    [v4 |-> {}, v6 |-> {}, nsRc |-> 9, nsOut |-> <<>>,
     axfrOut |-> <<>>, ctRc |-> 6, ctJson |-> FALSE, ctNames |-> <<>>],
    \* two names resolve, transfers are refused, no certificates
    [v4 |-> {1}, v6 |-> {2}, nsRc |-> 0, nsOut |-> NsAnswer(t, 2),
     axfrOut |-> AxfrRefused, ctRc |-> 0, ctJson |-> TRUE, ctNames |-> <<>>],
    \* many names resolve, four name servers allow the transfer
    [v4 |-> 1..11, v6 |-> {}, nsRc |-> 0, nsOut |-> NsAnswer(t, 4),
     axfrOut |-> ZoneAnswer(t), ctRc |-> 0, ctJson |-> TRUE,
     ctNames |-> CtAnswer(t)],
    \* only the transfer answers, the certificate answer is not JSON
    [v4 |-> {}, v6 |-> {}, nsRc |-> 0, nsOut |-> NsAnswer(t, 2),
     axfrOut |-> ZoneAnswer(t), ctRc |-> 0, ctJson |-> FALSE,
     ctNames |-> <<>>],
    \* no name server is listed, certificates are found
    [v4 |-> {1}, v6 |-> {}, nsRc |-> 0, nsOut |-> <<>>,
     axfrOut |-> <<>>, ctRc |-> 0, ctJson |-> TRUE, ctNames |-> CtAnswer(t)] }

NmapWorlds == { NmapHeader \o NmapPorts, NmapClosed, NmapRdns \o NmapPorts }

\* the answer to curl -I over http and over https; rc 7 is a refused connection
CurlWorlds ==
  { [http |-> [rc |-> 0, out |-> Http200],    https |-> [rc |-> 0, out |-> Http404]],
    [http |-> [rc |-> 0, out |-> Http301],    https |-> [rc |-> 0, out |-> Http403]],
    [http |-> [rc |-> 0, out |-> Http404Ref], https |-> [rc |-> 0, out |-> <<>>]],
    [http |-> [rc |-> 0, out |-> Http500],    https |-> [rc |-> 0, out |-> Http302]],
    [http |-> [rc |-> 7, out |-> <<>>],       https |-> [rc |-> 0, out |-> Http404]] }

NiktoWorlds == { NiktoFound, NiktoClean, NiktoSummary }

\* the answers of the network a run has asked for so far; the answer to a
\* tool that has not run yet is empty
NoAnswer == [rc |-> 0, out |-> <<>>]
EnvOf(d) ==
  [dns |-> d, nmap |-> <<>>, curl |-> [http |-> NoAnswer, https |-> NoAnswer],
   nikto |-> <<>>]

----------------------------------------------------------------------------
(* Child processes: what subprocess.run does *)

\* a child that ran to completion
Done(rc, out) == [kind |-> "done", rc |-> rc, stdout |-> out]

\* subprocess.run raised: TimeoutExpired, OSError or KeyboardInterrupt
Raised(kind) == [kind |-> kind, rc |-> -1, stdout |-> <<>>]

\* the ways an invocation can go wrong: subprocess.run raises TimeoutExpired,
\* OSError or KeyboardInterrupt, or the child exits with a non-zero status.
\* The probes that call subprocess.run inside a bare except treat every
\* exception alike; run_command tells them apart.
FaultKinds(cmd) ==
  IF cmd \in {"nmap", "nikto"}
  THEN {"timeout", "error", "interrupt", "nonzero"}
  ELSE {"timeout", "interrupt", "nonzero"}

\* a fault hits the first invocation of a command in its phase
FaultPositions == {1}

\* the fault a plan injects into invocation idx of command cmd
FaultOf(plan, cmd, idx) ==
  IF \E f \in plan : f.cmd = cmd /\ f.idx = idx
  THEN (CHOOSE f \in plan : f.cmd = cmd /\ f.idx = idx).kind
  ELSE "none"

\* what a tool that exits with a non-zero status has printed: the resolver
\* and the HTTP client print their error, the scanners keep what they found
FailedOutput(cmd, out) ==
  CASE cmd = "host"     -> DnsUnreachable
    [] cmd = "dig AXFR" -> AxfrRefused
    [] cmd \in {"dig NS", "curl crt.sh", "curl -I"} -> <<>>
    [] OTHER -> out

\* the result of an invocation: the network's answer unless a fault is injected
Inject(plan, cmd, idx, natural) ==
  LET k == FaultOf(plan, cmd, idx)
  IN IF k = "none" THEN natural
     ELSE IF k = "nonzero"
          THEN Done(IF natural.rc = 0 THEN 1 ELSE natural.rc,
                    FailedOutput(cmd, natural.stdout))
          ELSE Raised(k)

\* how an invocation ended, as recorded in the log of invocations
Outcome(p) ==
  IF p.kind = "done" THEN (IF p.rc = 0 THEN "ok" ELSE "nonzero") ELSE p.kind

Call(cmd, arg, idx, p) == [cmd |-> cmd, arg |-> arg, idx |-> idx, out |-> Outcome(p)]

\* the fault plans of at most n faults over the given slots, one per slot
Plans(slots, n) ==
  LET RECURSIVE go(_)
      go(k) ==
        IF k <= 0 THEN {{}}
        ELSE LET prev == go(k - 1)
             IN prev \cup
                UNION { { p \cup {[cmd |-> s.cmd, idx |-> s.idx, kind |-> kd]} :
                            p \in prev, kd \in FaultKinds(s.cmd) } : s \in slots }
  IN { p \in go(n) : \A f, g \in p : (f.cmd = g.cmd /\ f.idx = g.idx) => f = g }

Slots(cmds) == { [cmd |-> c, idx |-> i] : c \in cmds, i \in FaultPositions }

\* every fault of the plan hit an invocation that took place
Used(plan, log) ==
  \A f \in plan : \E i \in 1..Len(log) :
     log[i].cmd = f.cmd /\ log[i].idx = f.idx /\ log[i].out = f.kind

----------------------------------------------------------------------------
(* Phase 1: subdomain_enumeration *)

\* a seed that forgets the target
SeedSetEmpty(t) == {}

\* subdomains = set([self.target])
SeedSet(t) == {t}

\* what `host fqdn` answers for label i of common_subs
HostRun(d, i, t) ==
  LET fqdn == Fqdn(common_subs[i], t)
  IN IF i \in d.v4 THEN Done(0, fqdn \o HostV4Tail)
     ELSE IF i \in d.v6 THEN Done(0, fqdn \o HostV6Tail)
     ELSE Done(1, HostNxHead \o fqdn \o HostNxTail)

\* 'has address' in result.stdout or 'has IPv6' in result.stdout; a raised
\* exception is swallowed by the bare except
HostFound(p) ==
  /\ p.kind = "done"
  /\ (Contains(p.stdout, HasAddress) \/ Contains(p.stdout, HasIPv6))

\* Method 1: the dictionary probe over common_subs
DictionaryProbe(t, d, plan) ==
  LET RECURSIVE go(_, _, _)
      go(i, subs, log) ==
        IF i > Len(common_subs) THEN [subs |-> subs, calls |-> log]
        ELSE LET fqdn == Fqdn(common_subs[i], t)
                 p    == Inject(plan, "host", i, HostRun(d, i, t))
             IN go(i + 1,
                   IF HostFound(p) THEN subs \cup {fqdn} ELSE subs,
                   Append(log, Call("host", fqdn, i, p)))
  IN go(1, {}, <<>>)

\* [ns.strip().rstrip('.') for ns in stdout.split('\n') if ns.strip()]
Nameservers(out) ==
  LET lines == SelectSeq(SplitOn(out, "\n"), LAMBDA l : Strip(l) # <<>>)
  IN [i \in 1..Len(lines) |-> RStripDot(Strip(lines[i]))]

\* the owner name a line of a transfer contributes, as a set of 0 or 1 names
AxfrLineNames(t, line) ==
  IF Contains(line, t) /\ Contains(line, TabATab)
  THEN LET parts == Split(line)
       IN IF parts # <<>> /\ EndsWith(RStripDot(parts[1]), t)
          THEN {RStripDot(parts[1])}
          ELSE {}
  ELSE {}

\* the names one transfer contributes
AxfrNames(t, p) ==
  IF p.kind = "done" /\ p.rc = 0 /\ ~Contains(p.stdout, TransferFailed)
  THEN LET lines == SplitOn(p.stdout, "\n")
       IN UNION { AxfrLineNames(t, lines[i]) : i \in 1..Len(lines) }
  ELSE {}

\* Method 2: the zone-transfer probe
ZoneTransferProbe(t, d, plan) ==
  LET pn == Inject(plan, "dig NS", 1, Done(d.nsRc, d.nsOut))
      nsCall == <<Call("dig NS", t, 1, pn)>>
  IN IF pn.kind # "done" THEN [subs |-> {}, calls |-> nsCall]
     ELSE LET servers == Take(Nameservers(pn.stdout), NameserverCap)
              RECURSIVE go(_, _, _)
              go(j, subs, log) ==
                IF j > Len(servers) THEN [subs |-> subs, calls |-> log]
                ELSE LET p == Inject(plan, "dig AXFR", j, Done(0, d.axfrOut))
                     IN go(j + 1, subs \cup AxfrNames(t, p),
                           Append(log, Call("dig AXFR", servers[j], j, p)))
          IN go(1, {}, nsCall)

\* the names the certificate-transparency answer contributes
CtNames(d, p) ==
  IF p.kind = "done" /\ p.rc = 0 /\ d.ctJson
  THEN LET entries == Take(d.ctNames, CtCap)
       IN { Strip(entries[i]) : i \in
              { k \in 1..Len(entries) :
                  /\ Strip(entries[k]) # <<>>
                  /\ ~StartsWith(Strip(entries[k]), <<"*">>) } }
  ELSE {}

\* Method 3: the certificate-transparency probe
CtProbe(t, d, plan) ==
  LET p == Inject(plan, "curl crt.sh", 1, Done(d.ctRc, <<>>))
  IN [subs |-> CtNames(d, p), calls |-> <<Call("curl crt.sh", t, 1, p)>>]

\* the set the phase has collected and the invocations it made
Phase1(t, d, plan) ==
  LET m1 == DictionaryProbe(t, d, plan)
      m2 == ZoneTransferProbe(t, d, plan)
      m3 == CtProbe(t, d, plan)
  IN [subs  |-> SeedSet(t) \cup m1.subs \cup m2.subs \cup m3.subs,
      calls |-> m1.calls \o m2.calls \o m3.calls]

Phase1Slots == Slots({"host", "dig NS", "dig AXFR", "curl crt.sh"})

----------------------------------------------------------------------------
(* run_command *)

\* a run_command that lets TimeoutExpired escape
RunCommandRaising(p) ==
  IF p.kind = "done"
  THEN [raised |-> FALSE, success |-> (p.rc = 0), stdout |-> p.stdout, stderr |-> <<>>]
  ELSE IF p.kind = "error"
  THEN [raised |-> FALSE, success |-> FALSE, stdout |-> <<>>, stderr |-> ErrorMarker]
  ELSE [raised |-> TRUE, success |-> FALSE, stdout |-> <<>>, stderr |-> <<>>]

\* what run_command returns for a child: (success, stdout, stderr); raised is
\* TRUE when the exception is not caught (KeyboardInterrupt is no Exception)
RunCommand(p) ==
  IF p.kind = "done"
  THEN [raised |-> FALSE, success |-> (p.rc = 0), stdout |-> p.stdout, stderr |-> <<>>]
  ELSE IF p.kind = "timeout"
  THEN [raised |-> FALSE, success |-> FALSE, stdout |-> <<>>, stderr |-> TimeoutMarker]
  ELSE IF p.kind = "error"
  THEN [raised |-> FALSE, success |-> FALSE, stdout |-> <<>>, stderr |-> ErrorMarker]
  ELSE [raised |-> TRUE, success |-> FALSE, stdout |-> <<>>, stderr |-> <<>>]

----------------------------------------------------------------------------
(* Phase 2: port_scanning *)

\* a port scan without its cap
PortTargetsAll(subdomains) == subdomains

\* targets = self.results['subdomains'][:5]
PortTargets(subdomains) == Take(subdomains, PortScanCap)

\* the Port records one line of the scanner's output yields: none or one
NmapLinePorts(host, line) ==
  IF Contains(line, SlashTcp) /\ Contains(line, OpenWord)
  THEN LET parts == Split(line)
       IN IF Len(parts) >= 3
          THEN << [host |-> host, port |-> SplitOn(parts[1], "/")[1],
                   protocol |-> TcpWord, service |-> parts[3],
                   state |-> parts[2]] >>
          ELSE <<>>
  ELSE <<>>

\* the Port records of one scan, in the order of the output lines
ParseNmap(host, stdout) ==
  LET lines == SplitOn(stdout, "\n")
      RECURSIVE go(_, _)
      go(i, acc) ==
        IF i > Len(lines) THEN acc
        ELSE go(i + 1, acc \o NmapLinePorts(host, lines[i]))
  IN go(1, <<>>)

\* the loop over the targets: all_ports, the invocations, and whether a
\* KeyboardInterrupt left the loop
Phase2(subdomains, nmapOut, plan) ==
  LET targets == PortTargets(subdomains)
      RECURSIVE go(_, _, _)
      go(i, ports, log) ==
        IF i > Len(targets) THEN [raised |-> FALSE, ports |-> ports, calls |-> log]
        ELSE LET p == Inject(plan, "nmap", i, Done(0, nmapOut))
                 r == RunCommand(p)
                 log2 == Append(log, Call("nmap", targets[i], i, p))
             IN IF r.raised THEN [raised |-> TRUE, ports |-> ports, calls |-> log2]
                ELSE go(i + 1,
                        IF r.success THEN ports \o ParseNmap(targets[i], r.stdout)
                        ELSE ports,
                        log2)
  IN go(1, <<>>, <<>>)

----------------------------------------------------------------------------
(* Phase 3: service_enumeration *)

\* targets = self.results['subdomains'][:10]
ServiceTargets(subdomains) == Take(subdomains, ServiceCap)

\* f"{protocol}://{subdomain}"
Url(protocol, subdomain) == protocol \o SchemeSep \o subdomain

\* the value of the first header line that starts with "server:", or ''
ServerOf(lines) ==
  LET hits == {i \in 1..Len(lines) : StartsWith(Lower(lines[i]), ServerColon)}
  IN IF hits = {} THEN <<>>
     ELSE Strip(SplitOnce(lines[Nth(hits, 1)], ":")[2])

\* '200' in status or '301' in status or '302' in status or '403' in status
LooksLive(status) == \E c \in LiveCodes : Contains(status, c)

\* status.split()[1] if len(status.split()) > 1 else 'Unknown'
StatusToken(status) ==
  IF Len(Split(status)) > 1 THEN Split(status)[2] ELSE Unknown

\* the Service records one probe yields: none or one
ProbeServices(url, p) ==
  IF p.kind = "done" /\ p.rc = 0 /\ p.stdout # <<>>
  THEN LET lines  == SplitOn(p.stdout, "\n")
           status == lines[1]
           server == ServerOf(lines)
       IN IF LooksLive(status)
          THEN << [url |-> url, status |-> StatusToken(status),
                   server |-> IF server = <<>> THEN Unknown ELSE server] >>
          ELSE <<>>
  ELSE <<>>

\* the loops over targets and schemes: services and the invocations
Phase3(subdomains, world, plan) ==
  LET targets == ServiceTargets(subdomains)
      RECURSIVE go(_, _, _)
      go(n, services, log) ==
        IF n > 2 * Len(targets) THEN [services |-> services, calls |-> log]
        ELSE LET sub   == targets[(n + 1) \div 2]
                 https == (n % 2 = 0)
                 url   == Url(IF https THEN HttpsWord ELSE HttpWord, sub)
                 ans   == IF https THEN world.https ELSE world.http
                 p     == Inject(plan, "curl -I", n, Done(ans.rc, ans.out))
             IN go(n + 1, services \o ProbeServices(url, p),
                   Append(log, Call("curl -I", url, n, p)))
  IN go(1, <<>>, <<>>)

----------------------------------------------------------------------------
(* Phase 4: vulnerability_scanning *)

\* [s for s in self.results['services'] if 'http' in s.get('url', '')][:3]
WebServices(services) ==
  Take(SelectSeq(services, LAMBDA s : Contains(s.url, HttpWord)), VulnScanCap)

\* '+ ' in line and ('OSVDB' in line or 'vulnerab' in line.lower())
IsFindingLine(line) ==
  /\ Contains(line, PlusSpace)
  /\ (Contains(line, Osvdb) \/ Contains(Lower(line), Vulnerab))

\* the Finding records of one scan, in the order of the output lines
ParseNikto(url, stdout) ==
  LET lines == SplitOn(stdout, "\n")
      RECURSIVE go(_, _)
      go(i, acc) ==
        IF i > Len(lines) THEN acc
        ELSE go(i + 1,
                IF IsFindingLine(lines[i])
                THEN Append(acc, [target |-> url, finding |-> Strip(lines[i])])
                ELSE acc)
  IN go(1, <<>>)

\* the loop over the selected services
Phase4(web, niktoOut, plan) ==
  LET RECURSIVE go(_, _, _)
      go(i, vulns, log) ==
        IF i > Len(web) THEN [raised |-> FALSE, vulns |-> vulns, calls |-> log]
        ELSE LET p == Inject(plan, "nikto", i, Done(0, niktoOut))
                 r == RunCommand(p)
                 log2 == Append(log, Call("nikto", web[i].url, i, p))
             IN IF r.raised THEN [raised |-> TRUE, vulns |-> vulns, calls |-> log2]
                ELSE go(i + 1,
                        IF r.success /\ r.stdout # <<>>
                        THEN vulns \o ParseNikto(web[i].url, r.stdout)
                        ELSE vulns,
                        log2)
  IN go(1, <<>>, <<>>)

----------------------------------------------------------------------------
(* generate_html_report *)

\* a section whose marker is off by one
SectionOffByOne(items, limit) ==
  [shown |-> Take(items, limit),
   more  |-> IF Len(items) >= limit THEN <<Len(items) - limit>> ELSE <<>>]

\* a list section of the report: the first `limit` items and the
\* "...and N more" marker, <<N>> when present
Section(items, limit) ==
  [shown |-> Take(items, limit),
   more  |-> IF Len(items) > limit THEN <<Len(items) - limit>> ELSE <<>>]

\* what the report prints of a Port, a Service and a Finding
PortItem(p) == [host |-> p.host, port |-> p.port, protocol |-> p.protocol,
                service |-> p.service]
ServiceItem(s) == [url |-> s.url, status |-> s.status, server |-> s.server]
FindingItem(v) == v.finding

\* a findings section without the placeholder
VulnSectionBare(vulns) ==
  [shown |-> [i \in 1..Len(Take(vulns, VulnsShown)) |-> FindingItem(vulns[i])],
   placeholder |-> FALSE]

\* the findings section: the first 30 findings, or the placeholder
VulnSection(vulns) ==
  IF vulns # <<>>
  THEN [shown |-> [i \in 1..Len(Take(vulns, VulnsShown)) |-> FindingItem(vulns[i])],
        placeholder |-> FALSE]
  ELSE [shown |-> <<>>, placeholder |-> TRUE]

\* report.html
Html(res) ==
  [target     |-> res.target,
   stats      |-> [subdomains |-> Len(res.subdomains), ports |-> Len(res.ports),
                   services |-> Len(res.services),
                   findings |-> Len(res.vulnerabilities)],
   subdomains |-> Section(res.subdomains, SubdomainsShown),
   ports      |-> Section([i \in 1..Len(res.ports) |-> PortItem(res.ports[i])],
                          PortsShown),
   services   |-> Section([i \in 1..Len(res.services) |-> ServiceItem(res.services[i])],
                          ServicesShown),
   vulns      |-> VulnSection(res.vulnerabilities)]

\* results.json: json.dump(self.results)
Json(res) == res

----------------------------------------------------------------------------
(* State *)

VARIABLES
  avail,       \* the tools `which` finds
  env,         \* the network's answers during this run
  pc,          \* where run() is
  entered,     \* the phases entered so far, in order (5 is the report)
  results,     \* self.results
  calls,       \* the scan-tool invocations made so far, in order
  faults,      \* injected faults so far
  html,        \* report.html: <<>> or <<document>>
  json,        \* results.json: <<>> or <<document>>
  skipped,     \* the "Phase 4 Skipped" notice was printed
  outcome,     \* how the run ended
  exitStatus   \* the exit status of the process, -1 while it runs

vars == <<avail, env, pc, entered, results, calls, faults, html, json, skipped,
          outcome, exitStatus>>

\* an aggregate that starts with an entry of an earlier run
InitResultsStale(t) ==
  [target |-> t, timestamp |-> "t0", author |-> "ctctchm",
   subdomains |-> << <<"o","l","d">> >>, ports |-> <<>>, services |-> <<>>,
   vulnerabilities |-> <<>>, directories |-> <<>>]

\* self.results as built by __init__
InitResults(t) ==
  [target |-> t, timestamp |-> "t0", author |-> "ctctchm",
   subdomains |-> <<>>, ports |-> <<>>, services |-> <<>>,
   vulnerabilities |-> <<>>, directories |-> <<>>]

\* an assignment that also stamps the aggregate anew
StoreStamping(res, field, value) ==
  [res EXCEPT ![field] = value, !.timestamp = "t1"]

\* self.results[field] = value
Store(res, field, value) == [res EXCEPT ![field] = value]

Init ==
  /\ avail \in SUBSET Tools
  /\ \E t \in Targets :
       /\ results = InitResults(t)
       /\ \E d \in DnsWorlds(t) : env = EnvOf(d)
  /\ pc = "check"
  /\ entered = <<>>
  /\ calls = <<>>
  /\ faults = 0
  /\ html = <<>>
  /\ json = <<>>
  /\ skipped = FALSE
  /\ outcome = "running"
  /\ exitStatus = -1

\* a dependency check that does not look for nikto
DependenciesOkLax(have) == {"nmap", "host", "dig", "curl"} \ have = {}

\* check_dependencies(): True iff no tool is missing
DependenciesOk(have) == Tools \ have = {}

\* a run() that goes from the service probe straight to the report
NextPhaseSkipping(p) ==
  CASE p = "subdomains" -> "ports"
    [] p = "ports"      -> "services"
    [] p = "services"   -> "report"
    [] p = "vulns"      -> "report"
    [] p = "report"     -> "done"

\* the statement of run() that follows a phase
NextPhase(p) ==
  CASE p = "subdomains" -> "ports"
    [] p = "ports"      -> "services"
    [] p = "services"   -> "vulns"
    [] p = "vulns"      -> "report"
    [] p = "report"     -> "done"

\* run() up to the try block
CheckDependencies ==
  /\ pc = "check"
  /\ IF DependenciesOk(avail)
     THEN /\ pc' = "subdomains"
          /\ UNCHANGED <<outcome, exitStatus>>
     ELSE /\ pc' = "returned"
          /\ outcome' = "nodeps"
          /\ exitStatus' = NormalExit
  /\ UNCHANGED <<avail, env, entered, results, calls, faults, html, json, skipped>>

\* the except clauses of run(): sys.exit(1) in both
Exit(kind) ==
  /\ pc' = "exited"
  /\ outcome' = kind
  /\ exitStatus' = IF kind = "interrupted" THEN InterruptExit ELSE ExceptionExit

\* the phase returned: run() goes on
Continue ==
  /\ pc' = NextPhase(pc)
  /\ UNCHANGED <<outcome, exitStatus>>

\* subdomain_enumeration(); writing subdomains.txt may raise
SubdomainEnumeration ==
  /\ pc = "subdomains"
  /\ \E plan \in Plans(Phase1Slots, MaxFaults - faults), writeFails \in BOOLEAN :
       LET r == Phase1(results.target, env.dns, plan)
       IN /\ Used(plan, r.calls)
          /\ results' = Store(results, "subdomains", Sorted(r.subs))
          /\ calls' = calls \o r.calls
          /\ faults' = faults + Cardinality(plan)
          /\ IF writeFails THEN Exit("exception") ELSE Continue
  /\ entered' = Append(entered, 1)
  /\ UNCHANGED <<avail, env, html, json, skipped>>

\* port_scanning()
PortScanning ==
  /\ pc = "ports"
  /\ \E world \in NmapWorlds, plan \in Plans(Slots({"nmap"}), MaxFaults - faults) :
       LET r == Phase2(results.subdomains, world, plan)
       IN /\ Used(plan, r.calls)
          /\ env' = [env EXCEPT !.nmap = world]
          /\ calls' = calls \o r.calls
          /\ faults' = faults + Cardinality(plan)
          /\ IF r.raised
             THEN Exit("interrupted") /\ UNCHANGED results
             ELSE Continue /\ results' = Store(results, "ports", r.ports)
  /\ entered' = Append(entered, 2)
  /\ UNCHANGED <<avail, html, json, skipped>>

\* service_enumeration()
ServiceEnumeration ==
  /\ pc = "services"
  /\ \E world \in CurlWorlds, plan \in Plans(Slots({"curl -I"}), MaxFaults - faults) :
       LET r == Phase3(results.subdomains, world, plan)
       IN /\ Used(plan, r.calls)
          /\ env' = [env EXCEPT !.curl = world]
          /\ calls' = calls \o r.calls
          /\ faults' = faults + Cardinality(plan)
          /\ results' = Store(results, "services", r.services)
  /\ Continue
  /\ entered' = Append(entered, 3)
  /\ UNCHANGED <<avail, html, json, skipped>>

\* vulnerability_scanning()
VulnerabilityScanning ==
  /\ pc = "vulns"
  /\ LET web == WebServices(results.services)
     IN IF web = <<>>
        THEN /\ skipped' = TRUE
             /\ Continue
             /\ UNCHANGED <<env, results, calls, faults>>
        ELSE /\ \E world \in NiktoWorlds,
                   plan \in Plans(Slots({"nikto"}), MaxFaults - faults) :
                  LET r == Phase4(web, world, plan)
                  IN /\ Used(plan, r.calls)
                     /\ env' = [env EXCEPT !.nikto = world]
                     /\ calls' = calls \o r.calls
                     /\ faults' = faults + Cardinality(plan)
                     /\ IF r.raised
                        THEN Exit("interrupted") /\ UNCHANGED results
                        ELSE /\ Continue
                             /\ results' = Store(results, "vulnerabilities", r.vulns)
             /\ UNCHANGED skipped
  /\ entered' = Append(entered, 4)
  /\ UNCHANGED <<avail, html, json>>

\* generate_html_report() and the end of run(); either write may raise
GenerateReport ==
  /\ pc = "report"
  /\ \E failing \in {"none", "html", "json"} :
       /\ html' = IF failing = "html" THEN html ELSE <<Html(results)>>
       /\ json' = IF failing = "none" THEN <<Json(results)>> ELSE json
       /\ IF failing = "none"
          THEN /\ pc' = NextPhase(pc)
               /\ outcome' = "success"
               /\ exitStatus' = NormalExit
          ELSE Exit("exception")
  /\ entered' = Append(entered, 5)
  /\ UNCHANGED <<avail, env, results, calls, faults, skipped>>

\* a KeyboardInterrupt between two phases reaches the handler of run()
Interrupt ==
  /\ pc \in {"subdomains", "ports", "services", "vulns", "report"}
  /\ Exit("interrupted")
  /\ UNCHANGED <<avail, env, entered, results, calls, faults, html, json, skipped>>

Next ==
  \/ CheckDependencies
  \/ SubdomainEnumeration
  \/ PortScanning
  \/ ServiceEnumeration
  \/ VulnerabilityScanning
  \/ GenerateReport
  \/ Interrupt

Spec == Init /\ [][Next]_vars

----------------------------------------------------------------------------
(* The report renderer on its own: generate_html_report() applied to an    *)
(* aggregate whose lists are shorter than, as long as, and longer than the *)
(* truncation limits.                                                      *)

Digits == <<"0","1","2","3","4","5","6","7","8","9">>

\* a two-digit number as text
Num2(i) == <<Digits[(i \div 10) + 1], Digits[(i % 10) + 1]>>

SampleHost(i, t) == <<"h">> \o Num2(i) \o <<".">> \o t

\* a sorted list of n names that ends with the target
SampleSubdomains(n, t) ==
  [i \in 1..n |-> IF i = n THEN t ELSE SampleHost(i, t)]

SamplePorts(n, t) ==
  [i \in 1..n |-> [host |-> t, port |-> Num2(i), protocol |-> TcpWord,
                   service |-> HttpWord, state |-> OpenWord]]

SampleServices(n, t) ==
  [i \in 1..n |-> [url |-> Url(HttpWord, SampleHost(i, t)),
                   status |-> <<"2","0","0">>, server |-> Unknown]]

SampleFindings(n, t) ==
  [i \in 1..n |-> [target |-> Url(HttpWord, SampleHost(1, t)),
                   finding |-> PlusSpace \o Osvdb \o <<"-">> \o Num2(i)]]

SubdomainSizes == {1, SubdomainsShown - 1, SubdomainsShown, SubdomainsShown + 1,
                   SubdomainsShown + MaxOver}
PortSizes      == {0, PortsShown, PortsShown + 1, PortsShown + MaxOver}
ServiceSizes   == {0, ServicesShown, ServicesShown + 1, ServicesShown + MaxOver}
FindingSizes   == {0, 1, VulnsShown + 1}

InitReport ==
  /\ avail = Tools
  /\ \E t \in Targets :
       /\ env = EnvOf(CHOOSE d \in DnsWorlds(t) : d.ctJson /\ d.v4 = {1})
       /\ \E n \in SubdomainSizes, p \in PortSizes, s \in ServiceSizes,
             v \in FindingSizes :
            /\ v > 0 => s > 0
            /\ results = [InitResults(t) EXCEPT
                            !.subdomains = SampleSubdomains(n, t),
                            !.ports = SamplePorts(p, t),
                            !.services = SampleServices(s, t),
                            !.vulnerabilities = SampleFindings(v, t)]
            /\ skipped = (s = 0)
  /\ pc = "report"
  /\ entered = <<1, 2, 3, 4>>
  /\ calls = <<>>
  /\ faults = 0
  /\ html = <<>>
  /\ json = <<>>
  /\ outcome = "running"
  /\ exitStatus = -1

NextReport == GenerateReport

SpecReport == InitReport /\ [][NextReport]_vars

----------------------------------------------------------------------------
(* Properties *)

Min(a, b) == IF a < b THEN a ELSE b

IsPrefix(a, b) == Len(a) <= Len(b) /\ \A i \in 1..Len(a) : a[i] = b[i]

\* the invocations of one command, in order
CallsOf(cmd) == SelectSeq(calls, LAMBDA c : c.cmd = cmd)

\* the phase a command belongs to
PhaseOf(cmd) ==
  CASE cmd \in {"host", "dig NS", "dig AXFR", "curl crt.sh"} -> 1
    [] cmd = "nmap"    -> 2
    [] cmd = "curl -I" -> 3
    [] cmd = "nikto"   -> 4

\* the invocations of phase 1
ProbeCalls == SelectSeq(calls, LAMBDA c : PhaseOf(c.cmd) = 1)

\* every probe of phase 1 failed: it raised or exited with a non-zero status
AllProbesFailed == \A i \in 1..Len(ProbeCalls) : ProbeCalls[i].out # "ok"

\* C1: once subdomain_enumeration has completed, the subdomains list
\* contains the target, in that state and in every later state of the run,
\* whatever the probes returned; if every probe failed the list is exactly
\* [target].
C1_TargetAlwaysListed ==
  entered # <<>> =>
    /\ results.target \in Range(results.subdomains)
    /\ AllProbesFailed => results.subdomains = <<results.target>>

\* C1 witness: a finished run in which every probe of phase 1 failed
C1_Witness ==
  /\ pc = "done"
  /\ Len(ProbeCalls) > Len(common_subs)
  /\ AllProbesFailed
  /\ results.subdomains = <<results.target>>

\* C2: the port scanner is invoked on at most 5 subdomains, the service
\* probe on at most 10 subdomains (both schemes each) and the vulnerability
\* scanner on at most 3 services, and in each case on the first ones of the
\* stored list, in order.
C2_ScanCaps ==
  LET nm == CallsOf("nmap")
      cu == CallsOf("curl -I")
      nk == CallsOf("nikto")
      n  == Len(results.subdomains)
  IN /\ Len(nm) <= 5
     /\ \A i \in 1..Len(nm) : i <= n /\ nm[i].arg = results.subdomains[i]
     /\ Len(cu) <= 2 * 10
     /\ \A i \in 1..Len(cu) :
          /\ (i + 1) \div 2 <= n
          /\ cu[i].arg = Url(IF i % 2 = 1 THEN HttpWord ELSE HttpsWord,
                             results.subdomains[(i + 1) \div 2])
     /\ Len(nk) <= 3
     /\ \A i \in 1..Len(nk) :
          i <= Len(results.services) /\ nk[i].arg = results.services[i].url
     /\ 3 \in Range(entered) => Len(nm) = Min(5, n) /\ Len(cu) = 2 * Min(10, n)
     /\ (pc = "report" /\ ~skipped) => Len(nk) = Min(3, Len(results.services))

\* C2 witness: more candidates than each cap, and each scanner ran up to its cap
C2_Witness ==
  /\ Len(results.subdomains) > 10
  /\ Len(results.services) > 3
  /\ Len(CallsOf("nmap")) = 5
  /\ Len(CallsOf("curl -I")) = 20
  /\ Len(CallsOf("nikto")) = 3

\* the answer the network gave to the n-th service probe of the run
ProbeAnswer(n) == IF n % 2 = 1 THEN env.curl.http ELSE env.curl.https

\* the status code of a response: the second field of its first line
ParsedStatus(out) == StatusToken(SplitOn(out, "\n")[1])

\* C3 (as claimed): a Service record exists for a probed URL if and only if
\* the request succeeded with output and the parsed status code is one of
\* 200, 301, 302, 403; and the status field of every record is one of them.
C3_ServiceIffLive ==
  3 \in Range(entered) =>
    LET cu == CallsOf("curl -I")
    IN /\ \A i \in 1..Len(cu) :
            (\E k \in 1..Len(results.services) : results.services[k].url = cu[i].arg)
            <=> /\ cu[i].out = "ok"
                /\ ProbeAnswer(i).out # <<>>
                /\ ParsedStatus(ProbeAnswer(i).out) \in LiveCodes
       /\ \A k \in 1..Len(results.services) :
            results.services[k].status \in LiveCodes

\* C4: with a required tool missing run() returns before any phase: no phase
\* is entered, no scan tool is invoked, the four lists stay empty; with all
\* five present the run goes on into the phases.
C4_MissingToolAborts ==
  /\ avail # Tools =>
       /\ pc \in {"check", "returned"}
       /\ entered = <<>>
       /\ calls = <<>>
       /\ results.subdomains = <<>> /\ results.ports = <<>>
       /\ results.services = <<>> /\ results.vulnerabilities = <<>>
       /\ html = <<>> /\ json = <<>>
  /\ (avail = Tools /\ pc # "check") => (pc # "returned" /\ outcome # "nodeps")

\* C4 witness: the run has returned because only nikto is missing
C4_Witness ==
  /\ avail = Tools \ {"nikto"}
  /\ pc = "returned"
  /\ outcome = "nodeps"

\* C5: the phases are entered in the order 1, 2, 3, 4, report, and every
\* invocation of a phase precedes those of the next; the report is reached
\* only after the four scan phases returned, so a run that left a scan phase
\* through an exception or interrupt wrote neither results.json nor
\* report.html.
C5_PhaseOrder ==
  /\ IsPrefix(entered, <<1, 2, 3, 4, 5>>)
  /\ \A i \in 1..(Len(calls) - 1) :
       PhaseOf(calls[i].cmd) <= PhaseOf(calls[i + 1].cmd)
  /\ 5 \in Range(entered) =>
       /\ \A i \in 1..Len(calls) :
            calls[i].cmd \in {"nmap", "nikto"} => calls[i].out # "interrupt"
       /\ skipped \/ Len(CallsOf("nikto")) > 0
  /\ (html # <<>> \/ json # <<>>) => 5 \in Range(entered)
  /\ (pc = "exited" /\ ~(5 \in Range(entered))) => (html = <<>> /\ json = <<>>)

\* C5 witness: an interrupt during the port scan ended the run, nothing written
C5_Witness ==
  /\ pc = "exited"
  /\ outcome = "interrupted"
  /\ entered = <<1, 2>>
  /\ \E i \in 1..Len(calls) : calls[i].cmd = "nmap" /\ calls[i].out = "interrupt"
  /\ html = <<>> /\ json = <<>>

\* C6 (as claimed): an exception ends the run with a non-zero exit status,
\* and a user interrupt ends it with an exit status that differs from the one
\* of an exception and from the one of a successful run.
C6_DistinctExitStatus ==
  /\ outcome = "exception"   => exitStatus # NormalExit
  /\ outcome = "interrupted" => (exitStatus # NormalExit /\ exitStatus # ExceptionExit)


\* the names the zone-transfer answer of this run lists as owner of an
\* address record
AddressOwners ==
  LET lines == SplitOn(env.dns.axfrOut, "\n")
  IN { RStripDot(Split(lines[i])[1]) :
         i \in { k \in 1..Len(lines) :
                   Split(lines[k]) # <<>> /\ Contains(lines[k], TabATab) } }

\* the names the other two probes can contribute
DictionaryNames == { Fqdn(common_subs[i], results.target) : i \in 1..Len(common_subs) }
CertificateNames == { Strip(env.dns.ctNames[k]) : k \in 1..Len(env.dns.ctNames) }

\* the target or a proper subdomain of it
InBailiwick(name, t) == name = t \/ EndsWith(name, <<".">> \o t)

\* some invocation of the run timed out
SomeTimeout == \E i \in 1..Len(calls) : calls[i].out = "timeout"

\* the last index of the loop that invokes cmd, given the lists it runs over
LastIdx(cmd) ==
  CASE cmd = "host"    -> Len(common_subs)
    [] cmd = "nmap"    -> Min(5, Len(results.subdomains))
    [] cmd = "curl -I" -> 2 * Min(10, Len(results.subdomains))
    [] cmd = "nikto"   -> Min(3, Len(results.services))
    [] OTHER           -> 0

\* a timed-out invocation left no record and the loop went on to its next target
TimeoutIsLocal ==
  \A i \in 1..Len(calls) :
    calls[i].out = "timeout" =>
      LET c == calls[i]
      IN /\ c.cmd = "host" =>
              (c.arg \in Range(results.subdomains)
                 => c.arg \in CertificateNames \cup AddressOwners)
         /\ c.cmd = "nmap" =>
              \A k \in 1..Len(results.ports) : results.ports[k].host # c.arg
         /\ c.cmd = "curl -I" =>
              \A k \in 1..Len(results.services) : results.services[k].url # c.arg
         /\ c.cmd = "nikto" =>
              \A k \in 1..Len(results.vulnerabilities) :
                 results.vulnerabilities[k].target # c.arg
         /\ (c.cmd \in {"host", "nmap", "curl -I", "nikto"} /\ c.idx < LastIdx(c.cmd)) =>
              /\ i < Len(calls)
              /\ calls[i + 1].cmd = c.cmd
              /\ calls[i + 1].idx = c.idx + 1
         /\ c.cmd \in {"host", "dig NS", "dig AXFR"} =>
              \E j \in (i + 1)..Len(calls) : calls[j].cmd = "curl crt.sh"

\* the invocations the step appends to the log
NewCalls == SubSeq(calls', Len(calls) + 1, Len(calls'))

\* C7: a timeout of one invocation is local.  run_command returns
\* (False, "", "Timeout") for it and does not raise; the timed-out
\* target/tool pair leaves no record; the loop goes on with its next target;
\* and the phase in which an invocation timed out returns to run(), which
\* goes on to the next phase and, at the end, writes both report files.  A
\* phase with a timeout leaves run() only for a cause of its own: a failed
\* write or a KeyboardInterrupt during a scanner's invocation.
C7_TimeoutIsLocal ==
  /\ [](/\ RunCommand(Raised("timeout")) =
             [raised |-> FALSE, success |-> FALSE, stdout |-> <<>>,
              stderr |-> <<"T","i","m","e","o","u","t">>]
        /\ TimeoutIsLocal
        /\ pc = "done" => (html # <<>> /\ json # <<>>))
  /\ [][(\E i \in 1..Len(NewCalls) : NewCalls[i].out = "timeout") =>
          \/ pc' = NextPhase(pc) /\ outcome' = "running"
          \/ outcome' = "exception"
          \/ /\ outcome' = "interrupted"
             /\ \E i \in 1..Len(NewCalls) :
                   NewCalls[i].cmd \in {"nmap", "nikto"} /\ NewCalls[i].out = "interrupt"]_vars

\* C7 witness: a port scan timed out on one host, other hosts yielded ports,
\* and the run finished with its report
C7_Witness ==
  /\ \E i \in 1..Len(calls) : calls[i].cmd = "nmap" /\ calls[i].out = "timeout"
  /\ results.ports # <<>>
  /\ pc = "done"
  /\ html # <<>>

\* C8: for n subdomains, p ports and s services the report lists the first
\* min(n,30), min(p,30) and min(s,20) of them, carries an "and N more" marker
\* with N = n-30, p-30, s-20 exactly when the list is longer than its limit,
\* shows n, p, s and the number of findings in the summary, and results.json
\* holds every element of every list.
C8_ReportTruncation ==
  LET n == Len(results.subdomains)
      p == Len(results.ports)
      s == Len(results.services)
      v == Len(results.vulnerabilities)
  IN /\ html # <<>> =>
          LET h == html[1]
          IN /\ Len(h.subdomains.shown) = Min(n, 30)
             /\ \A i \in 1..Min(n, 30) : h.subdomains.shown[i] = results.subdomains[i]
             /\ h.subdomains.more = IF n > 30 THEN <<n - 30>> ELSE <<>>
             /\ Len(h.ports.shown) = Min(p, 30)
             /\ \A i \in 1..Min(p, 30) :
                  /\ h.ports.shown[i].host = results.ports[i].host
                  /\ h.ports.shown[i].port = results.ports[i].port
             /\ h.ports.more = IF p > 30 THEN <<p - 30>> ELSE <<>>
             /\ Len(h.services.shown) = Min(s, 20)
             /\ \A i \in 1..Min(s, 20) : h.services.shown[i].url = results.services[i].url
             /\ h.services.more = IF s > 20 THEN <<s - 20>> ELSE <<>>
             /\ h.stats = [subdomains |-> n, ports |-> p, services |-> s, findings |-> v]
     /\ json # <<>> =>
          /\ json[1].subdomains = results.subdomains
          /\ json[1].ports = results.ports
          /\ json[1].services = results.services
          /\ json[1].vulnerabilities = results.vulnerabilities
     /\ pc = "done" => (html # <<>> /\ json # <<>>)

\* C8 witness: 45 subdomains rendered as 30 and "and 15 more", with the ports
\* and the services over their limits too
C8_Witness ==
  /\ pc = "done"
  /\ Len(results.subdomains) = 45
  /\ Len(html[1].subdomains.shown) = 30
  /\ html[1].subdomains.more = <<15>>
  /\ html[1].ports.more # <<>>
  /\ html[1].services.more # <<>>
  /\ Len(json[1].subdomains) = 45

\* no Service record has a URL with an HTTP scheme
NoWebService == \A k \in 1..Len(results.services) :
                   ~Contains(results.services[k].url, <<"h","t","t","p">>)

\* C9: with no web service in the aggregate, vulnerability_scanning invokes
\* no scanner, prints the skip notice, leaves the findings empty and returns
\* to run(), which goes on to the report; the report then shows the
\* "No vulnerabilities detected" placeholder.
C9_SkipWithoutServices ==
  /\ [](/\ (4 \in Range(entered) /\ NoWebService) =>
              /\ skipped
              /\ CallsOf("nikto") = <<>>
              /\ results.vulnerabilities = <<>>
        /\ (skipped /\ html # <<>>) =>
              /\ html[1].vulns.placeholder
              /\ html[1].vulns.shown = <<>>
              /\ html[1].stats.findings = 0)
  /\ [][(pc = "vulns" /\ NoWebService /\ entered' # entered) =>
          (pc' = "report" /\ skipped' /\ outcome' = "running")]_vars

\* C9 witness: a finished run whose phase 4 was skipped
C9_Witness ==
  /\ pc = "done"
  /\ skipped
  /\ results.services = <<>>
  /\ html[1].vulns.placeholder

\* C10 (as claimed): a name is in the subdomain set through the zone
\* transfer only if it is the owner of an address record and is the target
\* or a proper subdomain of it; a name outside the zone is never added.
C10_ZoneTransferInBailiwick ==
  entered # <<>> =>
    \A s \in Range(results.subdomains) :
       \/ s = results.target
       \/ s \in DictionaryNames \cup CertificateNames
       \/ (s \in AddressOwners /\ InBailiwick(s, results.target))

\* C11: the stored subdomains list is sorted ascending and holds no string
\* twice, whatever the probes returned: a name reported by several probes,
\* or several times by one, is one entry.
C11_SortedDeduplicated ==
  LET xs == results.subdomains
  IN /\ \A i \in 1..(Len(xs) - 1) : StrLess(xs[i], xs[i + 1])
     /\ \A i, j \in 1..Len(xs) : i # j => xs[i] # xs[j]
     /\ Cardinality(Range(xs)) = Len(xs)

\* C11 witness: www.<target> resolved in the dictionary probe and is in the
\* certificate answer, which also lists one name twice, and three servers
\* returned the same zone
C11_Witness ==
  /\ 1 \in Range(entered)
  /\ 1 \in env.dns.v4
  /\ CallsOf("host")[1].out = "ok"
  /\ Fqdn(common_subs[1], results.target) \in CertificateNames
  /\ Cardinality(CertificateNames) < Len(env.dns.ctNames)
  /\ CallsOf("curl crt.sh")[1].out = "ok"
  /\ Len(SelectSeq(CallsOf("dig AXFR"), LAMBDA c : c.out = "ok")) = 3
  /\ Len(SelectSeq(results.subdomains,
                   LAMBDA s : s = Fqdn(common_subs[1], results.target))) = 1
  /\ Len(results.subdomains) > 3

\* C12: each of the four lists only grows: in every step the list before the
\* step is a prefix of the list after it, so no record is deleted or changed.
C12_AppendOnly ==
  [][/\ IsPrefix(results.subdomains, results'.subdomains)
     /\ IsPrefix(results.ports, results'.ports)
     /\ IsPrefix(results.services, results'.services)
     /\ IsPrefix(results.vulnerabilities, results'.vulnerabilities)]_vars

\* C12 witness: the four phases have each filled their list
C12_Witness ==
  /\ pc = "report"
  /\ Len(results.subdomains) > 1
  /\ results.ports # <<>>
  /\ results.services # <<>>
  /\ results.vulnerabilities # <<>>

\* the records of a list that belong to one scanned host or URL
PortsOf(host) == SelectSeq(results.ports, LAMBDA p : p.host = host)
FindingsOf(url) == SelectSeq(results.vulnerabilities, LAMBDA v : v.target = url)

\* port_scanning, resp. vulnerability_scanning, has stored its list
PortsStored == pc = "services" \/ 3 \in Range(entered)
FindingsStored == ~skipped /\ (pc = "report" \/ 5 \in Range(entered))

\* C13 (as claimed): a scanner that ran to completion with a non-zero exit
\* status is no failure for run_command, which returns its output, and the
\* calling phase parses that output into records.
C13_NonZeroExitIsNoFailure ==
  /\ PortsStored =>
       \A i \in 1..Len(CallsOf("nmap")) :
          CallsOf("nmap")[i].out = "nonzero" =>
            /\ RunCommand(Done(1, env.nmap)).success
            /\ RunCommand(Done(1, env.nmap)).stdout = env.nmap
            /\ PortsOf(CallsOf("nmap")[i].arg) =
                 ParseNmap(CallsOf("nmap")[i].arg, env.nmap)
  /\ FindingsStored =>
       \A i \in 1..Len(CallsOf("nikto")) :
          CallsOf("nikto")[i].out = "nonzero" =>
            /\ RunCommand(Done(1, env.nikto)).success
            /\ FindingsOf(CallsOf("nikto")[i].arg) =
                 ParseNikto(CallsOf("nikto")[i].arg, env.nikto)

\* the lines of a scanner's output that start with "+ " and name OSVDB or,
\* in any case, "vulnerab"
MarkedLines(out) ==
  SelectSeq(SplitOn(out, "\n"),
            LAMBDA l : /\ StartsWith(l, PlusSpace)
                       /\ (Contains(l, Osvdb) \/ Contains(Lower(l), Vulnerab)))

\* C14 (as claimed): the findings of a scanned URL are exactly the lines of
\* the scanner's output that start with "+ " and contain OSVDB or,
\* case-insensitively, "vulnerab"; a line with "+ " only after its start
\* yields none; every finding carries the scanned URL as its target.
C14_FindingIffMarkedLine ==
  FindingsStored =>
    /\ \A i \in 1..Len(CallsOf("nikto")) :
          CallsOf("nikto")[i].out = "ok" =>
            LET url == CallsOf("nikto")[i].arg
                ls  == MarkedLines(env.nikto)
            IN /\ Len(FindingsOf(url)) = Len(ls)
               /\ \A k \in 1..Len(ls) : FindingsOf(url)[k].finding = Strip(ls[k])
    /\ \A k \in 1..Len(results.vulnerabilities) :
          \E i \in 1..Len(CallsOf("nikto")) :
             CallsOf("nikto")[i].arg = results.vulnerabilities[k].target

\* a string of decimal digits
IsNumeric(s) ==
  s # <<>> /\ \A i \in 1..Len(s) : s[i] \in {"0","1","2","3","4","5","6","7","8","9"}

\* the lines of a scan that contain "/tcp" and "open" and have three tokens
PortLines(out) ==
  SelectSeq(SplitOn(out, "\n"),
            LAMBDA l : /\ Contains(l, SlashTcp) /\ Contains(l, OpenWord)
                       /\ Len(Split(l)) >= 3)

\* C15 (as claimed): every Port record has protocol "tcp", state "open", a
\* numeric port taken from before the "/" of the line's first token and a
\* host among the first 5 subdomains; each scanned host has one record per
\* output line with "/tcp", "open" and three tokens, and no other.
C15_PortRecords ==
  PortsStored =>
    /\ \A k \in 1..Len(results.ports) :
          LET p == results.ports[k]
          IN /\ p.protocol = TcpWord
             /\ p.state = OpenWord
             /\ IsNumeric(p.port)
             /\ p.host \in Range(Take(results.subdomains, 5))
    /\ \A i \in 1..Len(CallsOf("nmap")) :
          CallsOf("nmap")[i].out = "ok" =>
            LET host == CallsOf("nmap")[i].arg
                ls   == PortLines(env.nmap)
            IN /\ Len(PortsOf(host)) = Len(ls)
               /\ \A k \in 1..Len(ls) :
                    PortsOf(host)[k].port = SplitOn(Split(ls[k])[1], "/")[1]

\* the phase that assigns a field of the aggregate
Owner(field) ==
  CASE field = "subdomains"      -> "subdomains"
    [] field = "ports"           -> "ports"
    [] field = "services"        -> "services"
    [] field = "vulnerabilities" -> "vulns"
    [] OTHER                     -> "none"

\* the faults the invocations of the step met
FaultsMet ==
  { [cmd |-> NewCalls[i].cmd, idx |-> NewCalls[i].idx, kind |-> NewCalls[i].out] :
      i \in { k \in 1..Len(NewCalls) : NewCalls[k].out # "ok" } }

\* C16: a step changes at most the field of the phase it runs; the report
\* changes none; target and timestamp never change; and the value a phase
\* stores is determined by the fields of earlier phases and the answers of
\* its own tools alone.
C16_PhaseFrame ==
  [][/\ \A f \in DOMAIN results : results'[f] # results[f] => pc = Owner(f)
     /\ results'.target = results.target
     /\ results'.timestamp = results.timestamp
     /\ pc = "report" => results' = results
     /\ (pc = "subdomains" /\ entered' # entered) =>
           results'.subdomains =
             Sorted(Phase1(results.target, env.dns, FaultsMet).subs)
     /\ (pc = "ports" /\ pc' = "services") =>
           results'.ports = Phase2(results.subdomains, env'.nmap, FaultsMet).ports
     /\ (pc = "services" /\ pc' = "vulns") =>
           results'.services = Phase3(results.subdomains, env'.curl, FaultsMet).services
     /\ (pc = "vulns" /\ pc' = "report" /\ ~skipped') =>
           results'.vulnerabilities =
             Phase4(WebServices(results.services), env'.nikto, FaultsMet).vulns]_vars

\* C16 witness: a finished run whose four phases each stored a list, with the
\* target and the timestamp of the construction
C16_Witness ==
  /\ pc = "done"
  /\ results.target \in Targets
  /\ results.timestamp = "t0"
  /\ results.subdomains # <<>> /\ results.ports # <<>>
  /\ results.services # <<>> /\ results.vulnerabilities # <<>>
  /\ json = <<Json(results)>>

====
